---- MODULE Spec2Model ----
(***************************************************************************)
(* Model of MatrixGame (CFRPlusMatrix.cpp): a two-player zero-sum matrix   *)
(* game solved by Fictitious Play, CFR or CFR+.                            *)
(*                                                                         *)
(* The C++ `double` values are modelled as exact rationals <<num, den>>    *)
(* in lowest terms with den > 0, so two doubles are equal iff the pairs    *)
(* are equal.  Rounding error of IEEE arithmetic is not modelled.          *)
(***************************************************************************)
EXTENDS Integers, Sequences, FiniteSets, TLC

\* ---------------------------------------------------------------- bounds
Size == 2                   \* actions per player: the smallest -s accepts
MaxIter == 4                \* Iteration calls explored
MaxRegretIter == 2          \* of which CFR / CFR+ calls (these make the
                            \* regrets' denominators grow geometrically)
PayoffValues == {-1, 0, 1}  \* payoffs, drawn from [-1, 1]

Players == {0, 1}
Actions == 0 .. (Size - 1)
Cells   == 0 .. (Size * Size - 1)

VARIABLES payoffs, strategy, cfr, iterationCount, algorithm, pre, regretCalls

vars == <<payoffs, strategy, cfr, iterationCount, algorithm, pre, regretCalls>>

\* ------------------------------------------------- double arithmetic
Abs(x) == IF x < 0 THEN -x ELSE x

RECURSIVE GCD(_, _)
GCD(a, b) == IF b = 0 THEN a ELSE GCD(b, a % b)

Norm(n, d) == LET g == GCD(Abs(n), d) IN <<n \div g, d \div g>>

Zero == <<0, 1>>
One  == <<1, 1>>
FromInt(i) == <<i, 1>>

\* -numeric_limits<double>::max(): compares below every value a sum can take
DoubleLowest == <<-1, 0>>

\* common factors are cancelled before multiplying to keep the
\* intermediate integers small
RAdd(x, y) ==
    LET g == GCD(x[2], y[2])
    IN  IF g = 0 THEN Norm(x[1] * y[2] + y[1] * x[2], x[2] * y[2])
        ELSE Norm(x[1] * (y[2] \div g) + y[1] * (x[2] \div g),
                  (x[2] \div g) * y[2])
RNeg(x)    == <<-x[1], x[2]>>
RSub(x, y) == RAdd(x, RNeg(y))
RMul(x, y) ==
    LET g1 == GCD(Abs(x[1]), y[2])
        g2 == GCD(Abs(y[1]), x[2])
    IN  IF g1 = 0 \/ g2 = 0 THEN Norm(x[1] * y[1], x[2] * y[2])
        ELSE Norm((x[1] \div g1) * (y[1] \div g2),
                  (x[2] \div g2) * (y[2] \div g1))
\* division is only ever applied with a positive divisor (guard sum > 0)
RDiv(x, y) == RMul(x, <<y[2], y[1]>>)
RGt(x, y)  ==
    LET g == GCD(x[2], y[2])
    IN  IF g = 0 THEN x[1] * y[2] > y[1] * x[2]
        ELSE x[1] * (y[2] \div g) > y[1] * (x[2] \div g)
RGe(x, y)  == ~RGt(y, x)
RMax(x, y) == IF RGt(y, x) THEN y ELSE x

\* sum of v[0] .. v[k-1], accumulated in increasing index order
RECURSIVE SumTo(_, _)
SumTo(v, k) == IF k = 0 THEN Zero ELSE RAdd(SumTo(v, k - 1), v[k - 1])

\* ------------------------------------------------------------ helpers
\* variant: player 1's payoff is not negated
GetPayoffNoNegate(p, a, b) ==
    IF p = 0 THEN FromInt(payoffs[a * Size + b])
             ELSE FromInt(payoffs[b * Size + a])

\* GetPayoff(p, a, b)
GetPayoff(p, a, b) ==
    IF p = 0 THEN FromInt(payoffs[a * Size + b])
             ELSE RNeg(FromInt(payoffs[b * Size + a]))

Opp(player) == 1 - player        \* player ^ 1

\* variant: no uniform fallback for a zero total
GetNormalizedStrategyNoFallback(strat, player) ==
    LET sum == SumTo(strat[player], Size)
    IN  [i \in Actions |-> IF sum[1] = 0 THEN Zero
                           ELSE RDiv(strat[player][i], sum)]

\* GetNormalizedStrategy(player), reading the accumulators strat
GetNormalizedStrategy(strat, player) ==
    LET sum == SumTo(strat[player], Size)
    IN  IF RGt(sum, Zero)
        THEN [i \in Actions |-> RDiv(strat[player][i], sum)]
        ELSE [i \in Actions |-> RDiv(One, FromInt(Size))]

\* variant: negative regrets are divided by the sum as well
GetCurrentStrategyNoClamp(regret, player) ==
    LET sum == SumTo([i \in Actions |-> RMax(Zero, regret[player][i])], Size)
    IN  IF RGt(sum, Zero)
        THEN [i \in Actions |-> RDiv(regret[player][i], sum)]
        ELSE [i \in Actions |-> RDiv(One, FromInt(Size))]

\* GetCurrentStrategy(player), reading the regrets regret
GetCurrentStrategy(regret, player) ==
    LET sum == SumTo([i \in Actions |-> RMax(Zero, regret[player][i])], Size)
    IN  IF RGt(sum, Zero)
        THEN [i \in Actions |->
                IF RGt(regret[player][i], Zero)
                THEN RDiv(regret[player][i], sum) ELSE Zero]
        ELSE [i \in Actions |-> RDiv(One, FromInt(Size))]

\* expected payoff of action a of `player` against the distribution dist
ActionValue(player, a, dist) ==
    SumTo([b \in Actions |-> RMul(dist[b], GetPayoff(player, a, b))], Size)

\* variant: maxSum starts from numeric_limits<double>::min(), the smallest
\* positive double, instead of the lowest one
RECURSIVE ArgMaxLoopFromMin(_, _, _)
ArgMaxLoopFromMin(player, dist, k) ==
    IF k = 0 THEN [maxSum |-> <<1, 1048576>>, bestAction |-> -1]
    ELSE LET r   == ArgMaxLoopFromMin(player, dist, k - 1)
             sum == ActionValue(player, k - 1, dist)
         IN  IF RGt(sum, r.maxSum)
             THEN [maxSum |-> sum, bestAction |-> k - 1]
             ELSE r

\* the loop `for a in 0..size-1: if (sum > maxSum) {maxSum = sum; bestAction = a}`
\* run for a = 0 .. k-1; result is the pair [maxSum, bestAction]
RECURSIVE ArgMaxLoop(_, _, _)
ArgMaxLoop(player, dist, k) ==
    IF k = 0 THEN [maxSum |-> DoubleLowest, bestAction |-> -1]
    ELSE LET r   == ArgMaxLoop(player, dist, k - 1)
             sum == ActionValue(player, k - 1, dist)
         IN  IF RGt(sum, r.maxSum)
             THEN [maxSum |-> sum, bestAction |-> k - 1]
             ELSE r

BestResponseOf(strat, player) ==
    ArgMaxLoop(player, GetNormalizedStrategy(strat, Opp(player)), Size).maxSum

BestResponse(player) == BestResponseOf(strategy, player)

GetExploitability ==
    RDiv(RAdd(BestResponse(0), BestResponse(1)), FromInt(2))

GetIterationCount == iterationCount

\* ------------------------------------------------- per-player updates
\* variant: ties go to the highest index (>= comparison)
FictitiousPlayPlayerLast(strat, player) ==
    LET ns == GetNormalizedStrategy(strat, Opp(player))
        r  == ArgMaxLoop(player, ns, Size)
        bestAction == CHOOSE a \in Actions :
                         /\ ActionValue(player, a, ns) = r.maxSum
                         /\ \A b \in Actions :
                               ActionValue(player, b, ns) = r.maxSum => b <= a
    IN  [strat EXCEPT ![player][bestAction] = RAdd(@, One)]

\* FictitiousPlay(int player) applied to the accumulators strat
FictitiousPlayPlayer(strat, player) ==
    LET ns == GetNormalizedStrategy(strat, Opp(player))
        bestAction == ArgMaxLoop(player, ns, Size).bestAction
    IN  [strat EXCEPT ![player][bestAction] = RAdd(@, One)]

\* sp, cfu[] and ev as computed by the first loop of CFR(int) / CFRPlus(int)
CounterfactualUtility(regret, player) ==
    LET sp  == GetCurrentStrategy(regret, player)
        so  == GetCurrentStrategy(regret, Opp(player))
        cfu == [a \in Actions |-> ActionValue(player, a, so)]
        ev  == SumTo([a \in Actions |-> RMul(sp[a], cfu[a])], Size)
    IN  [sp |-> sp, cfu |-> cfu, ev |-> ev]

\* variant: the strategy accumulator receives the regret increment
CFRPlayerAddsRegret(strat, regret, player) ==
    LET u == CounterfactualUtility(regret, player)
    IN  [cfr |-> [regret EXCEPT ![player] =
                    [a \in Actions |->
                        RAdd(regret[player][a], RSub(u.cfu[a], u.ev))]],
         strategy |-> [strat EXCEPT ![player] =
                    [a \in Actions |->
                        RAdd(strat[player][a], RSub(u.cfu[a], u.ev))]]]

\* CFR(int player)
CFRPlayer(strat, regret, player) ==
    LET u == CounterfactualUtility(regret, player)
    IN  [cfr |-> [regret EXCEPT ![player] =
                    [a \in Actions |->
                        RAdd(regret[player][a], RSub(u.cfu[a], u.ev))]],
         strategy |-> [strat EXCEPT ![player] =
                    [a \in Actions |-> RAdd(strat[player][a], u.sp[a])]]]

\* variant: the regret is not floored at zero
CFRPlusPlayerNoFloor(strat, regret, t, player) ==
    LET u == CounterfactualUtility(regret, player)
    IN  [cfr |-> [regret EXCEPT ![player] =
                    [a \in Actions |->
                        RAdd(regret[player][a], RSub(u.cfu[a], u.ev))]],
         strategy |-> [strat EXCEPT ![player] =
                    [a \in Actions |->
                        RAdd(strat[player][a],
                             RMul(RMul(u.sp[a], FromInt(t)), FromInt(t)))]]]

\* CFRPlus(int player), t = iterationCount
CFRPlusPlayer(strat, regret, t, player) ==
    LET u == CounterfactualUtility(regret, player)
    IN  [cfr |-> [regret EXCEPT ![player] =
                    [a \in Actions |->
                        RMax(Zero, RSub(RAdd(regret[player][a], u.cfu[a]), u.ev))]],
         strategy |-> [strat EXCEPT ![player] =
                    [a \in Actions |->
                        RAdd(strat[player][a],
                             RMul(RMul(u.sp[a], FromInt(t)), FromInt(t)))]]]

\* ------------------------------------------------------------- state
ZeroVec == [p \in Players |-> [a \in Actions |-> Zero]]

Snapshot == [strategy |-> strategy, cfr |-> cfr, iterationCount |-> iterationCount]

\* MatrixGame(size, rng): counters and accumulators zeroed, payoffs drawn
Init ==
    /\ payoffs \in [Cells -> PayoffValues]
    /\ strategy = ZeroVec
    /\ cfr = ZeroVec
    /\ iterationCount = 0
    /\ algorithm = -1
    /\ pre = [strategy |-> ZeroVec, cfr |-> ZeroVec, iterationCount |-> 0]
    /\ regretCalls = 0

\* --------------------------------------------------------- operations
\* variant: both best responses are computed from the state at the start
FictitiousPlayFromStart ==
    /\ iterationCount < MaxIter
    /\ iterationCount' = iterationCount + 1
    /\ LET s0 == FictitiousPlayPlayer(strategy, 0)
           s1 == FictitiousPlayPlayer(strategy, 1)
       IN  strategy' = [strategy EXCEPT ![0] = s0[0], ![1] = s1[1]]
    /\ algorithm' = 0
    /\ pre' = Snapshot
    /\ UNCHANGED <<payoffs, cfr, regretCalls>>

\* FictitiousPlay()
FictitiousPlay ==
    /\ iterationCount < MaxIter
    /\ iterationCount' = iterationCount + 1
    /\ LET s0 == FictitiousPlayPlayer(strategy, 0)
           s1 == FictitiousPlayPlayer(s0, 1)
       IN  strategy' = s1
    /\ algorithm' = 0
    /\ pre' = Snapshot
    /\ UNCHANGED <<payoffs, cfr, regretCalls>>

\* variant: both updates are computed from the state at the start
CFRFromStart ==
    /\ iterationCount < MaxIter
    /\ regretCalls < MaxRegretIter
    /\ iterationCount' = iterationCount + 1
    /\ LET r0 == CFRPlayer(strategy, cfr, 0)
           r1 == CFRPlayer(strategy, cfr, 1)
       IN  /\ strategy' = [strategy EXCEPT ![0] = r0.strategy[0],
                                           ![1] = r1.strategy[1]]
           /\ cfr' = [cfr EXCEPT ![0] = r0.cfr[0], ![1] = r1.cfr[1]]
    /\ algorithm' = 1
    /\ pre' = Snapshot
    /\ regretCalls' = regretCalls + 1
    /\ UNCHANGED payoffs

\* CFR()
CFR ==
    /\ iterationCount < MaxIter
    /\ regretCalls < MaxRegretIter
    /\ iterationCount' = iterationCount + 1
    /\ LET r0 == CFRPlayer(strategy, cfr, 0)
           r1 == CFRPlayer(r0.strategy, r0.cfr, 1)
       IN  /\ strategy' = r1.strategy
           /\ cfr' = r1.cfr
    /\ algorithm' = 1
    /\ pre' = Snapshot
    /\ regretCalls' = regretCalls + 1
    /\ UNCHANGED payoffs

\* variant: the weight uses the counter before the increment
CFRPlusOldCount ==
    /\ iterationCount < MaxIter
    /\ regretCalls < MaxRegretIter
    /\ iterationCount' = iterationCount + 1
    /\ LET r0 == CFRPlusPlayer(strategy, cfr, iterationCount, 0)
           r1 == CFRPlusPlayer(r0.strategy, r0.cfr, iterationCount, 1)
       IN  /\ strategy' = r1.strategy
           /\ cfr' = r1.cfr
    /\ algorithm' = 2
    /\ pre' = Snapshot
    /\ regretCalls' = regretCalls + 1
    /\ UNCHANGED payoffs

\* CFRPlus()
CFRPlus ==
    /\ iterationCount < MaxIter
    /\ regretCalls < MaxRegretIter
    /\ iterationCount' = iterationCount + 1
    /\ LET r0 == CFRPlusPlayer(strategy, cfr, iterationCount', 0)
           r1 == CFRPlusPlayer(r0.strategy, r0.cfr, iterationCount', 1)
       IN  /\ strategy' = r1.strategy
           /\ cfr' = r1.cfr
    /\ algorithm' = 2
    /\ pre' = Snapshot
    /\ regretCalls' = regretCalls + 1
    /\ UNCHANGED payoffs

\* Iteration(algorithm): dispatch on the selector 0 / 1 / 2
Next == FictitiousPlay \/ CFR \/ CFRPlus

Spec == Init /\ [][Next]_vars

\* ============================================================ properties
NonNeg(x) == RGe(x, Zero)
IsDistribution(d) ==
    /\ \A i \in Actions : NonNeg(d[i])
    /\ SumTo(d, Size) = One
Uniform == [i \in Actions |-> Norm(1, Size)]
Total(v) == SumTo(v, Size)

\* an action whose value against dist is maximal and strictly above the
\* value of every action with a lower index
IsFirstMax(player, a, dist) ==
    /\ \A b \in Actions :
          RGe(ActionValue(player, a, dist), ActionValue(player, b, dist))
    /\ \A b \in Actions :
          b < a => RGt(ActionValue(player, a, dist), ActionValue(player, b, dist))

\* v differs from w in exactly the entry a, which is larger by one
IncrementedAt(v, w, a) ==
    /\ v[a] = RAdd(w[a], One)
    /\ \A b \in Actions : b # a => v[b] = w[b]

\* regrets of player 0 as they stand between the two per-player updates of
\* the last call (player 1's update never writes cfr[0])
MidCfr == [pre.cfr EXCEPT ![0] = cfr[0]]

\* C1: after any sequence of Iteration calls (including none) the
\* exploitability (BestResponse(0) + BestResponse(1)) / 2 is >= 0.
C1_ExploitabilityNonNegative == NonNeg(GetExploitability)

C1_Witness ==
    /\ iterationCount >= 2
    /\ algorithm = 2
    /\ RGt(GetExploitability, Zero)

\* C2: once the last call was a CFR+ iteration every regret entry of both
\* players is >= 0, whatever the regrets were before that call.
C2_CFRPlusRegretNonNegative ==
    algorithm = 2 => \A p \in Players : \A a \in Actions : NonNeg(cfr[p][a])

C2_Witness ==
    /\ algorithm = 2
    /\ \A p \in Players : \E a \in Actions : ~NonNeg(pre.cfr[p][a])

\* C3: the normalized (average) strategy of each player is a probability
\* distribution in every reachable state, and is uniform 1/n when the
\* accumulator's total is zero.
C3_NormalizedStrategyIsDistribution ==
    \A p \in Players :
        /\ IsDistribution(GetNormalizedStrategy(strategy, p))
        /\ Total(strategy[p]) = Zero
              => GetNormalizedStrategy(strategy, p) = Uniform
        /\ RGt(Total(strategy[p]), Zero)
              => \A a \in Actions :
                    RMul(GetNormalizedStrategy(strategy, p)[a], Total(strategy[p]))
                       = strategy[p][a]

C3_Witness ==
    /\ iterationCount >= 2
    /\ \E p \in Players : \E a \in Actions :
          /\ GetNormalizedStrategy(strategy, p) # Uniform
          /\ RGt(GetNormalizedStrategy(strategy, p)[a], Zero)
          /\ RGt(One, GetNormalizedStrategy(strategy, p)[a])

\* C4: the current strategy derived from the regrets (those between calls
\* and those between the two per-player updates of a call) is a probability
\* distribution: positive regrets are divided by the sum of the positive
\* regrets, non-positive regrets get 0, and with no positive regret the
\* result is uniform.
CurrentStrategyOK(regret, p) ==
    LET cs     == GetCurrentStrategy(regret, p)
        posSum == Total([a \in Actions |->
                     IF RGt(regret[p][a], Zero) THEN regret[p][a] ELSE Zero])
    IN  /\ IsDistribution(cs)
        /\ IF RGt(posSum, Zero)
           THEN \A a \in Actions :
                   IF RGt(regret[p][a], Zero)
                   THEN RMul(cs[a], posSum) = regret[p][a]
                   ELSE cs[a] = Zero
           ELSE cs = Uniform

C4_CurrentStrategyIsDistribution ==
    \A p \in Players : CurrentStrategyOK(cfr, p) /\ CurrentStrategyOK(MidCfr, p)

C4_Witness ==
    /\ algorithm \in {1, 2}
    /\ \E p \in Players : \E a, b \in Actions :
          /\ RGt(cfr[p][a], Zero)
          /\ RGt(Zero, cfr[p][b])

\* C5: every strategy accumulator entry starts at 0, is never decreased by
\* a call of any of the three algorithms, and so is always >= 0.
C5_StrategyMonotone ==
    /\ strategy = ZeroVec
    /\ [](\A p \in Players : \A a \in Actions : NonNeg(strategy[p][a]))
    /\ [][\A p \in Players : \A a \in Actions :
             RGe(strategy'[p][a], strategy[p][a])]_vars

C5_Witness ==
    /\ iterationCount >= 2
    /\ \E p \in Players : \E a \in Actions :
          /\ RGt(strategy[p][a], pre.strategy[p][a])
          /\ RGt(pre.strategy[p][a], Zero)

\* C6: a Fictitious Play call increments, for each player, exactly one
\* strategy entry by exactly 1 and changes no regret; the index is a valid
\* action and is the lowest one whose expected payoff against the opponent's
\* average strategy at the time of that player's update is maximal.
C6_FictitiousPlaySingleIncrement ==
    algorithm = 0 =>
        /\ cfr = pre.cfr
        /\ \E a \in Actions :
              /\ IncrementedAt(strategy[0], pre.strategy[0], a)
              /\ IsFirstMax(0, a, GetNormalizedStrategy(pre.strategy, 1))
        /\ \E a \in Actions :
              /\ IncrementedAt(strategy[1], pre.strategy[1], a)
              /\ IsFirstMax(1, a, GetNormalizedStrategy(strategy, 0))

C6_Witness ==
    /\ algorithm = 0
    /\ iterationCount >= 2
    /\ \E p \in Players : \E a, b \in Actions :
          /\ a < b
          /\ IncrementedAt(strategy[p], pre.strategy[p], a)
          /\ LET dist == IF p = 0 THEN GetNormalizedStrategy(pre.strategy, 1)
                                  ELSE GetNormalizedStrategy(strategy, 0)
             IN  ActionValue(p, a, dist) = ActionValue(p, b, dist)

\* C7: for the all-zero payoff matrix the exploitability of the freshly
\* constructed solver (iteration 0) is exactly 0.
C7_ZeroMatrixExploitability ==
    (iterationCount = 0 /\ \A c \in Cells : payoffs[c] = 0)
        => GetExploitability = Zero

C7_Witness ==
    /\ iterationCount = 0
    /\ algorithm = -1
    /\ \A c \in Cells : payoffs[c] = 0
    /\ GetNormalizedStrategy(strategy, 0) = Uniform
    /\ GetNormalizedStrategy(strategy, 1) = Uniform

\* regret and strategy increments of one per-player CFR-family update, given
\* the player's own current strategy sp and the opponent's so
Cfu(player, so) == [a \in Actions |-> ActionValue(player, a, so)]
Ev(sp, cfu) == Total([a \in Actions |-> RMul(sp[a], cfu[a])])

\* the last call left player p's accumulators as one CFR / CFR+ update does
\* when it reads the opponent's current strategy so
UpdatedWith(p, so) ==
    LET sp  == GetCurrentStrategy(pre.cfr, p)
        cfu == Cfu(p, so)
        ev  == Ev(sp, cfu)
        w   == IF algorithm = 2 THEN FromInt(iterationCount * iterationCount)
                                ELSE One
    IN  /\ \A a \in Actions :
              LET r == RAdd(pre.cfr[p][a], RSub(cfu[a], ev))
              IN  cfr[p][a] = IF algorithm = 2 THEN RMax(Zero, r) ELSE r
        /\ \A a \in Actions :
              strategy[p][a] = RAdd(pre.strategy[p][a], RMul(sp[a], w))

\* the accumulators that processing player 1 first and player 0 second
\* would leave, starting from the state before the last call
SwappedOrder ==
    IF algorithm = 1
    THEN LET r1 == CFRPlayer(pre.strategy, pre.cfr, 1)
         IN  CFRPlayer(r1.strategy, r1.cfr, 0)
    ELSE LET r1 == CFRPlusPlayer(pre.strategy, pre.cfr, iterationCount, 1)
         IN  CFRPlusPlayer(r1.strategy, r1.cfr, iterationCount, 0)

\* C8 (as stated): in a CFR / CFR+ call both players' updates are computed
\* from the state at the start of the call, so player 1 does not see player
\* 0's regret update and the order of the two players does not matter.
C8_BothFromStartState ==
    algorithm \in {1, 2} =>
        /\ UpdatedWith(0, GetCurrentStrategy(pre.cfr, 1))
        /\ UpdatedWith(1, GetCurrentStrategy(pre.cfr, 0))
        /\ cfr = SwappedOrder.cfr
        /\ strategy = SwappedOrder.strategy

\* C8 (amended): in a CFR / CFR+ call player 0's update is computed from the
\* state at the start of the call, and player 1's update reads player 0's
\* current strategy from the regrets player 0's update has just written.
C8_PlayerOneSeesUpdatedRegret ==
    algorithm \in {1, 2} =>
        /\ UpdatedWith(0, GetCurrentStrategy(pre.cfr, 1))
        /\ UpdatedWith(1, GetCurrentStrategy(cfr, 0))

C8_Witness ==
    /\ algorithm \in {1, 2}
    /\ GetCurrentStrategy(cfr, 0) # GetCurrentStrategy(pre.cfr, 0)
    /\ ~UpdatedWith(1, GetCurrentStrategy(pre.cfr, 0))
    /\ cfr # SwappedOrder.cfr

\* C9: in a Fictitious Play call player 0 is processed first, against player
\* 1's average strategy at the start of the call, and player 1's best
\* response is computed against player 0's average strategy including the
\* increment player 0 has just made.
C9_FictitiousPlaySequential ==
    algorithm = 0 =>
        LET b0 == ArgMaxLoop(0, GetNormalizedStrategy(pre.strategy, 1), Size).bestAction
            b1 == ArgMaxLoop(1, GetNormalizedStrategy(strategy, 0), Size).bestAction
        IN  /\ b0 \in Actions /\ b1 \in Actions
            /\ IncrementedAt(strategy[0], pre.strategy[0], b0)
            /\ IncrementedAt(strategy[1], pre.strategy[1], b1)

C9_Witness ==
    /\ algorithm = 0
    /\ ArgMaxLoop(1, GetNormalizedStrategy(strategy, 0), Size).bestAction
          # ArgMaxLoop(1, GetNormalizedStrategy(pre.strategy, 0), Size).bestAction
    /\ Total(pre.strategy[0]) # Zero

\* C10: the counter starts at 0 and every call adds exactly 1 to it; a CFR+
\* call adds sp[a]*t*t to strategy[p][a] with t the counter after the
\* increment, raising each player's total by t*t; a CFR call raises each
\* player's total by exactly 1.
C10_IterationCounterAndWeights ==
    /\ algorithm = -1 => iterationCount = 0
    /\ algorithm # -1 => iterationCount = pre.iterationCount + 1
    /\ algorithm = 2 =>
          \A p \in Players :
              /\ Total(strategy[p]) =
                    RAdd(Total(pre.strategy[p]),
                         FromInt(iterationCount * iterationCount))
              /\ \A a \in Actions :
                    strategy[p][a] =
                       RAdd(pre.strategy[p][a],
                            RMul(GetCurrentStrategy(pre.cfr, p)[a],
                                 FromInt(iterationCount * iterationCount)))
    /\ algorithm = 1 =>
          \A p \in Players :
              Total(strategy[p]) = RAdd(Total(pre.strategy[p]), One)

C10_Witness ==
    /\ algorithm = 2
    /\ iterationCount >= 3
    /\ Total(strategy[0]) = RAdd(Total(pre.strategy[0]), FromInt(iterationCount * iterationCount))
    /\ Total(pre.strategy[0]) # Zero
====
